---- MODULE Spec2Model ----
(***************************************************************************)
(* Record-storage handlers of the blueprintx service templates.            *)
(*                                                                         *)
(* One handler object of one backend class works on its backing store:     *)
(* the JSON file, the CSV file, or the two-column SQL table.  Calls are     *)
(* synchronous and run to completion, so each call is one step.            *)
(*                                                                         *)
(* Python values are written <<tag, text>> with tag "int", "str" or        *)
(* "null"; a Record (dict[str, Any]) is a function from a set of field     *)
(* names to such values.                                                   *)
(*                                                                         *)
(* Spec:      the create, read, update, delete, backup and close methods   *)
(*            of one handler class acting on the store its __init__ left   *)
(*            behind, one caller at a time.                                *)
(* SpecBuild: build_database_handler selecting a class from DB_BACKEND and *)
(*            instantiating it.                                            *)
(* SpecRace:  two callers of one handler whose calls interleave statement  *)
(*            by statement.                                                *)
(* SpecConstruct: Spec with handlers constructed over a store that is       *)
(*            missing or was left by an earlier handler.                   *)
(* SpecDsn:   __init__ of a networked handler reading its DSN and the       *)
(*            environment.                                                 *)
(* SpecFailure: Spec with calls during which the storage layer raises.      *)
(* SpecBank:  the banking module: accounts saved in the in-memory           *)
(*            repository and BalanceAlertService.execute.                  *)
(*                                                                         *)
(* uuid.uuid4() is taken to return a token that no stored record carries   *)
(* (a collision of two random 128-bit tokens is left out).                 *)
(***************************************************************************)
EXTENDS Integers, Sequences, FiniteSets, TLC

VARIABLES kind,       \* backend class of the handler
          json_file,  \* content of JSONDatabaseHandler.file_path
          csv_file,   \* content of CSVDatabaseHandler.file_path
          table,      \* rows of the SQL handlers' table
          lastOp,     \* the last call: its arguments and what it returned
          DB_BACKEND, \* environment variable read by build_database_handler
          drivers,    \* the optional driver modules that import successfully
          handler,    \* what build_database_handler returned or raised
          called,     \* contract methods invoked on the built handler
          message,    \* the message of the exception build_database_handler raised
          connections,\* connections opened while the handler was constructed
          calls,      \* concurrent callers: the call each is in and its locals
          writer,     \* the caller that wrote the store last
          deleted,    \* per identifier: whether a delete of it has returned
                      \* true and no create of it was issued since
          store,      \* whether the backing file or table exists
          dsn,        \* the components of the DSN passed to __init__
          environ,    \* the environment variables that are set
          attributes, \* host, port, user, password, dbname of the handler
          items,      \* InMemoryAccountRepository.items
          outbox,     \* the alerts the notifier was asked to send, in order
          result      \* the last call of BalanceAlertService.execute

build_vars == <<DB_BACKEND, drivers, handler, called, message, connections>>
race_vars == <<calls, writer, deleted>>
dsn_vars == <<dsn, environ, attributes>>
bank_vars == <<items, outbox, result>>
vars == <<kind, json_file, csv_file, table, lastOp, build_vars, race_vars,
          store, dsn_vars, bank_vars>>

(***************************************************************************)
(* Bounds of the model.                                                    *)
(***************************************************************************)
MaxRows == 2

(***************************************************************************)
(* Backends and fields.                                                    *)
(***************************************************************************)
FileKinds == {"csv", "json"}
SqlKinds  == {"sqlite", "postgresql", "mariadb", "mysql", "mssql", "oracle"}
Backends  == FileKinds \cup SqlKinds
OpaqueKinds == Backends \ {"csv"}

id_field == "id"
Fields == {"a", "b", "id"}
FieldOrder == <<"a", "b", "id">>

None == <<"null", "">>
EmptyRecord == << >>

\* the tokens uuid.uuid4().hex may return; NoUuid when it is not called
UuidHex == {"u1"}
NoUuid == ""

\* identifier values a caller may put in a record, payload values, and the
\* records and partial records built from them
\* the records passed to create: identifier absent, 7, 0 or "", and the
\* payload fields a and b
RecordValues(f) == CASE f = "id" -> {<<"int", "7">>, <<"int", "0">>, <<"str", "">>}
                     [] f = "a"  -> {<<"int", "1">>}
                     [] f = "b"  -> {<<"int", "2">>}
\* the partial records passed to update: they may carry an identifier
UpdateValues(f) == CASE f = "id" -> {<<"int", "7">>}
                     [] f = "a"  -> {<<"int", "3">>}
                     [] f = "b"  -> {}
DictsOver(Values(_)) ==
    UNION {{r \in [D -> UNION {Values(f) : f \in Fields}] :
               \A f \in D : r[f] \in Values(f)} : D \in SUBSET Fields}
Records == DictsOver(RecordValues)
Updates == DictsOver(UpdateValues)

\* identifiers a caller may pass to read, update and delete
CallIds == {"7"} \cup UuidHex

(***************************************************************************)
(* Python expressions used by the handlers.                                *)
(***************************************************************************)
\* bool(value)
Truthy(v) == CASE v[1] = "null" -> FALSE
               [] v[1] = "int"  -> v[2] # "0"
               [] v[1] = "str"  -> v[2] # ""

\* str(value)
PyStr(v) == IF v[1] = "null" THEN "None" ELSE v[2]

\* record.get(key)
dict_get(record, key) == IF key \in DOMAIN record THEN record[key] ELSE None

\* {**record, key: value}
dict_set(record, key, value) ==
    [f \in DOMAIN record \cup {key} |-> IF f = key THEN value ELSE record[f]]

\* {**row, **updates}
dict_merge(row, updates) ==
    [f \in DOMAIN row \cup DOMAIN updates |->
        IF f \in DOMAIN updates THEN updates[f] ELSE row[f]]

\* sorted(keys)
sorted(keys) == SelectSeq(FieldOrder, LAMBDA f : f \in keys)

Min(S) == CHOOSE x \in S : \A y \in S : x <= y

(***************************************************************************)
(* base.py                                                                 *)
(***************************************************************************)
\* ensure_id without the str(value) coercion
ensure_id_uncoerced(record, uuid_hex) ==
    LET value == dict_get(record, id_field)
    IN  IF Truthy(value)
        THEN dict_set(record, id_field, value)
        ELSE dict_set(record, id_field, <<"str", uuid_hex>>)

ensure_id(record, uuid_hex) ==
    LET value == dict_get(record, id_field)
    IN  IF Truthy(value)
        THEN dict_set(record, id_field, <<"str", PyStr(value)>>)
        ELSE dict_set(record, id_field, <<"str", uuid_hex>>)

\* ensure_id calls uuid.uuid4() only when the record has no truthy identifier
Generates(record) == ~Truthy(dict_get(record, id_field))

\* the merge without the identifier pinned: {**row, **updates}
merged_unpinned(row, updates, record_id) == dict_merge(row, updates)

\* {**row, **updates, self.id_field: record_id}
merged(row, updates, record_id) ==
    dict_set(dict_merge(row, updates), id_field, <<"str", record_id>>)

\* str(row.get(self.id_field))
row_id(row) == PyStr(dict_get(row, id_field))

Absent == [found |-> FALSE, rec |-> EmptyRecord]
Found(rec) == [found |-> TRUE, rec |-> rec]

(***************************************************************************)
(* json.dumps / json.loads on a Record: a JSON object whose members are    *)
(* JSON numbers, strings and null.                                         *)
(***************************************************************************)
to_json(v) == CASE v[1] = "int"  -> <<"number", v[2]>>
                [] v[1] = "str"  -> <<"string", v[2]>>
                [] v[1] = "null" -> <<"null", "">>

from_json(j) == CASE j[1] = "number" -> <<"int", j[2]>>
                  [] j[1] = "string" -> <<"str", j[2]>>
                  [] j[1] = "null"   -> None

json_dumps(record) == [f \in DOMAIN record |-> to_json(record[f])]
json_loads(object) == [f \in DOMAIN object |-> from_json(object[f])]

(***************************************************************************)
(* json_handler.py                                                         *)
(***************************************************************************)
JSON_read_all(file) == [i \in 1..Len(file) |-> json_loads(file[i])]

JSON_write_all(rows) == [i \in 1..Len(rows) |-> json_dumps(rows[i])]

JSON_create(file, record, uuid_hex) ==
    LET rec  == ensure_id(record, uuid_hex)
        rows == Append(JSON_read_all(file), rec)
    IN  [file |-> JSON_write_all(rows), ret |-> PyStr(rec[id_field])]

JSON_read(file, record_id) ==
    LET rows == JSON_read_all(file)
        hits == {i \in 1..Len(rows) : row_id(rows[i]) = record_id}
    IN  IF hits = {} THEN Absent ELSE Found(rows[Min(hits)])

JSON_update(file, record_id, updates) ==
    LET old  == JSON_read_all(file)
        hits == {i \in 1..Len(old) : row_id(old[i]) = record_id}
        rows == [i \in 1..Len(old) |->
                    IF i \in hits THEN merged(old[i], updates, record_id)
                                  ELSE old[i]]
    IN  IF hits = {}
        THEN [file |-> file, ret |-> Absent]
        ELSE [file |-> JSON_write_all(rows),
              ret  |-> Found(rows[CHOOSE i \in hits : \A j \in hits : j <= i])]

\* delete that drops only the first matching row
JSON_delete_first(file, record_id) ==
    LET rows == JSON_read_all(file)
        hits == {i \in 1..Len(rows) : row_id(rows[i]) = record_id}
        remaining == [i \in 1..(Len(rows) - 1) |->
                        IF i < Min(hits) THEN rows[i] ELSE rows[i + 1]]
    IN  IF hits = {}
        THEN [file |-> file, ret |-> FALSE, n |-> 0]
        ELSE [file |-> JSON_write_all(remaining), ret |-> TRUE, n |-> 1]

JSON_delete(file, record_id) ==
    LET rows      == JSON_read_all(file)
        remaining == SelectSeq(rows, LAMBDA row : row_id(row) # record_id)
    IN  IF Len(remaining) = Len(rows)
        THEN [file |-> file, ret |-> FALSE, n |-> 0]
        ELSE [file |-> JSON_write_all(remaining), ret |-> TRUE,
              n |-> Len(rows) - Len(remaining)]

(***************************************************************************)
(* csv_handler.py: the file is a header line and one line of cells per     *)
(* row; a file of size 0 has neither.                                      *)
(***************************************************************************)
EmptyCsv == [header |-> << >>, lines |-> << >>]

\* csv.DictWriter.writerow: a missing key is written as restval "", None
\* as "", anything else as str(value)
csv_cell(row, f) == IF f \in DOMAIN row /\ row[f][1] # "null"
                    THEN PyStr(row[f]) ELSE ""

CSV_read_all(file) ==
    IF file = EmptyCsv THEN << >>
    ELSE [i \in 1..Len(file.lines) |->
            [f \in {file.header[j] : j \in 1..Len(file.header)} |->
                <<"str", file.lines[i][CHOOSE j \in 1..Len(file.header) :
                                            file.header[j] = f]>>]]

\* _write_all that takes the header from the first row only
CSV_write_all_first_row(rows) ==
    IF Len(rows) = 0 THEN EmptyCsv
    ELSE LET fieldnames == sorted(DOMAIN rows[1])
         IN  [header |-> fieldnames,
              lines  |-> [i \in 1..Len(rows) |->
                            [j \in 1..Len(fieldnames) |->
                                csv_cell(rows[i], fieldnames[j])]]]

CSV_write_all(rows) ==
    IF Len(rows) = 0 THEN EmptyCsv
    ELSE LET fieldnames == sorted(UNION {DOMAIN rows[i] : i \in 1..Len(rows)})
         IN  [header |-> fieldnames,
              lines  |-> [i \in 1..Len(rows) |->
                            [j \in 1..Len(fieldnames) |->
                                csv_cell(rows[i], fieldnames[j])]]]

CSV_create(file, record, uuid_hex) ==
    LET rec  == ensure_id(record, uuid_hex)
        rows == Append(CSV_read_all(file), rec)
    IN  [file |-> CSV_write_all(rows), ret |-> PyStr(rec[id_field])]

CSV_read(file, record_id) ==
    LET rows == CSV_read_all(file)
        hits == {i \in 1..Len(rows) : row_id(rows[i]) = record_id}
    IN  IF hits = {} THEN Absent ELSE Found(rows[Min(hits)])

CSV_update(file, record_id, updates) ==
    LET old  == CSV_read_all(file)
        hits == {i \in 1..Len(old) : row_id(old[i]) = record_id}
        rows == [i \in 1..Len(old) |->
                    IF i \in hits THEN merged(old[i], updates, record_id)
                                  ELSE old[i]]
    IN  IF hits = {}
        THEN [file |-> file, ret |-> Absent]
        ELSE [file |-> CSV_write_all(rows),
              ret  |-> Found(rows[CHOOSE i \in hits : \A j \in hits : j <= i])]

CSV_delete(file, record_id) ==
    LET rows      == CSV_read_all(file)
        remaining == SelectSeq(rows, LAMBDA row : row_id(row) # record_id)
    IN  IF Len(remaining) = Len(rows)
        THEN [file |-> file, ret |-> FALSE, n |-> 0]
        ELSE [file |-> CSV_write_all(remaining), ret |-> TRUE,
              n |-> Len(rows) - Len(remaining)]

(***************************************************************************)
(* sqlite_handler.py, and the same four methods of postgres_handler.py,    *)
(* mysql_handler.py, mariadb_handler.py, mssql_handler.py and               *)
(* oracle_handler.py: a table of rows (k, data) whose column k is the       *)
(* primary key and whose column data holds json.dumps(record).             *)
(***************************************************************************)
\* INSERT OR REPLACE / ON CONFLICT DO UPDATE / ON DUPLICATE KEY UPDATE / MERGE
upsert(tbl, key, payload) ==
    IF \E row \in tbl : row.k = key
    THEN {IF row.k = key THEN [k |-> key, data |-> payload] ELSE row : row \in tbl}
    ELSE tbl \cup {[k |-> key, data |-> payload]}

SQL_create(tbl, record, uuid_hex) ==
    LET rec     == ensure_id(record, uuid_hex)
        payload == json_dumps(rec)
    IN  [table |-> upsert(tbl, PyStr(rec[id_field]), payload),
         ret   |-> PyStr(rec[id_field])]

SQL_read(tbl, record_id) ==
    LET rows == {row \in tbl : row.k = record_id}
    IN  IF rows = {} THEN Absent
        ELSE Found(json_loads((CHOOSE row \in rows : TRUE).data))

\* update without the "if existing is None: return None" guard
SQL_update_unguarded(tbl, record_id, updates, uuid_hex) ==
    LET existing == SQL_read(tbl, record_id)
        updated  == merged(existing.rec, updates, record_id)
    IN  [table |-> SQL_create(tbl, updated, uuid_hex).table,
         ret   |-> Found(updated)]

SQL_update(tbl, record_id, updates, uuid_hex) ==
    LET existing == SQL_read(tbl, record_id)
        updated  == merged(existing.rec, updates, record_id)
    IN  IF ~existing.found
        THEN [table |-> tbl, ret |-> Absent]
        ELSE [table |-> SQL_create(tbl, updated, uuid_hex).table,
              ret   |-> Found(updated)]

\* delete whose DELETE statement is not committed
SQL_delete_uncommitted(tbl, record_id) ==
    LET rowcount == Cardinality({row \in tbl : row.k = record_id})
    IN  [table |-> tbl, ret |-> rowcount > 0, n |-> rowcount]

SQL_delete(tbl, record_id) ==
    LET rowcount == Cardinality({row \in tbl : row.k = record_id})
    IN  [table |-> {row \in tbl : row.k # record_id},
         ret   |-> rowcount > 0, n |-> rowcount]


(***************************************************************************)
(* The contract (base.py) and the classes that claim to implement it: the  *)
(* methods each class body defines.                                        *)
(***************************************************************************)
AbstractMethods == {"create", "read", "update", "delete", "backup", "close"}

CSVDatabaseHandler ==
    {"__init__", "create", "read", "update", "delete", "_read_all", "_write_all"}
JSONDatabaseHandler ==
    {"__init__", "create", "read", "update", "delete", "backup", "_read_all",
     "_write_all"}
SQLiteDatabaseHandler ==
    {"__init__", "create", "read", "update", "delete", "backup", "_connect",
     "_ensure_table"}
PostgresDatabaseHandler ==
    {"__init__", "create", "read", "update", "delete", "backup", "close",
     "_connect", "_parse_dsn", "_ensure_table"}
MariaDBDatabaseHandler ==
    {"__init__", "create", "read", "update", "delete", "backup", "close",
     "_connect", "_ensure_table", "_parse_dsn"}
MySQLDatabaseHandler ==
    {"__init__", "create", "read", "update", "delete", "backup", "close",
     "_connect", "_ensure_table", "_parse_dsn"}
MSSQLDatabaseHandler ==
    {"__init__", "create", "read", "update", "delete", "backup", "close",
     "_connect", "_ensure_table"}
OracleDatabaseHandler ==
    {"__init__", "create", "read", "update", "delete", "backup", "close",
     "_connect", "_ensure_table"}

\* the optional imports at the top of the networked handlers' modules
Drivers == {"psycopg", "mysql.connector", "pyodbc", "oracledb"}

(***************************************************************************)
(* main.py: build_database_handler                                         *)
(***************************************************************************)
\* the builders dict: backend kind -> class, and the driver the class's
\* __init__ requires ("" when none)
builders ==
    [b \in Backends |->
        CASE b = "csv"        -> [methods |-> CSVDatabaseHandler, driver |-> ""]
          [] b = "json"       -> [methods |-> JSONDatabaseHandler, driver |-> ""]
          [] b = "sqlite"     -> [methods |-> SQLiteDatabaseHandler, driver |-> ""]
          [] b = "postgresql" -> [methods |-> PostgresDatabaseHandler,
                                  driver |-> "psycopg"]
          [] b = "mariadb"    -> [methods |-> MariaDBDatabaseHandler,
                                  driver |-> "mysql.connector"]
          [] b = "mysql"      -> [methods |-> MySQLDatabaseHandler,
                                  driver |-> "mysql.connector"]
          [] b = "mssql"      -> [methods |-> MSSQLDatabaseHandler,
                                  driver |-> "pyodbc"]
          [] b = "oracle"     -> [methods |-> OracleDatabaseHandler,
                                  driver |-> "oracledb"]]

\* values DB_BACKEND may hold, and str.lower() on them
Selectors == Backends \cup {"JSON", "mongodb"}
lower(s) == IF s = "JSON" THEN "json" ELSE s

NotBuilt == [status |-> "none", backend |-> ""]

\* cls(...): a subclass of the ABC DatabaseHandler that leaves an abstract
\* method undefined cannot be instantiated (TypeError); otherwise __init__
\* runs and raises ImportError when the driver module is None
instantiate(backend, installed) ==
    LET cls == builders[backend]
    IN  IF ~(AbstractMethods \subseteq cls.methods)
        THEN [status |-> "TypeError", backend |-> backend]
        ELSE IF cls.driver # "" /\ cls.driver \notin installed
        THEN [status |-> "ImportError", backend |-> backend]
        ELSE [status |-> "ok", backend |-> backend]

\* the keys of the builders dict in the order the dict literal lists them
builder_keys == <<"csv", "json", "sqlite", "postgresql", "mariadb", "mysql",
                  "mssql", "oracle">>

NoMessage == [text |-> "", backend |-> "", supported |-> << >>]

\* f"Unsupported DB_BACKEND '{backend}'" without the list of supported kinds
unsupported_bare(backend) ==
    [text |-> "Unsupported DB_BACKEND", backend |-> backend,
     supported |-> << >>]

\* f"Unsupported DB_BACKEND '{backend}'. Supported: {', '.join(builders)}"
unsupported(backend) ==
    [text |-> "Unsupported DB_BACKEND", backend |-> backend,
     supported |-> builder_keys]

\* the message of the ImportError a networked handler's __init__ raises
driver_required(backend) ==
    [text |-> "is required", backend |-> builders[backend].driver,
     supported |-> << >>]

\* the message of the TypeError the ABC raises for a class that leaves an
\* abstract method undefined
abstract_class(backend) ==
    [text |-> "Can't instantiate abstract class", backend |-> backend,
     supported |-> << >>]

\* __init__ with _ensure_table() called before the driver check
ensure_table_unchecked(backend, installed) ==
    IF backend \in SqlKinds /\ AbstractMethods \subseteq builders[backend].methods
    THEN 1 ELSE 0

\* the connections __init__ opens: one, in _ensure_table(), which the SQL
\* handlers call as the last statement of __init__; the file handlers open
\* none
ensure_table(backend, installed) ==
    IF backend \in SqlKinds /\ instantiate(backend, installed).status = "ok"
    THEN 1 ELSE 0

build_database_handler ==
    /\ handler = NotBuilt
    /\ LET backend == lower(DB_BACKEND)
       IN  IF backend \notin DOMAIN builders
           THEN /\ handler' = [status |-> "ValueError", backend |-> backend]
                /\ message' = unsupported(backend)
                /\ connections' = 0
           ELSE /\ handler' = instantiate(backend, drivers)
                /\ message' = CASE handler'.status = "ImportError"
                                     -> driver_required(backend)
                                [] handler'.status = "TypeError"
                                     -> abstract_class(backend)
                                [] OTHER -> NoMessage
                /\ connections' = ensure_table(backend, drivers)
    /\ UNCHANGED <<kind, json_file, csv_file, table, lastOp, DB_BACKEND,
                   drivers, called, race_vars, store, dsn_vars, bank_vars>>

\* handler.<method>(...) on the handler that was returned
Invoke(method) ==
    /\ handler.status = "ok"
    /\ method \in builders[handler.backend].methods
    /\ called' = called \cup {method}
    /\ UNCHANGED <<kind, json_file, csv_file, table, lastOp, DB_BACKEND,
                   drivers, handler, message, connections, race_vars, store, dsn_vars, bank_vars>>

\* the callers of the handler, a caller that is in no call, and the files a
\* backup may find or leave at its target path
Procs == {"p1", "p2"}
Idle == [pc |-> "idle", op |-> "", rid |-> "", arg |-> EmptyRecord,
         pending |-> << >>, before |-> << >>, existing |-> Absent,
         found |-> FALSE, ret |-> EmptyRecord, stale |-> FALSE,
         overlap |-> ""]
NoWriter == ""

\* the identifiers concurrent callers pass to read, update and delete, none
\* of which has been deleted
RaceIds == {"7"}

\* the banking module: None as get returns it, and no call of execute yet
NoAccount  == [id |-> "<None>"]
NoExecute  == [account_id |-> "", threshold |-> <<"float", 0>>, ret |-> FALSE,
               sent |-> 0]

NoFile    == [format |-> "absent",  entries |-> << >>]
EmptyFile == [format |-> "empty",   entries |-> << >>]
OldFile   == [format |-> "old",     entries |-> << >>]
NoError   == <<"", "", 0>>
NoEnv     == [PATH |-> {}, exit |-> 0, prior |-> NoFile]

\* a DSN without components and a handler whose attributes are not set;
\* null is None
null == "<None>"
Parameters == {"host", "port", "user", "password", "database"}
NoDsn == [p \in Parameters |-> null]
NoAttributes == [p \in {} |-> null]

NoCall == [op |-> "init", rid |-> "", arg |-> EmptyRecord,
           found |-> FALSE, ret |-> EmptyRecord, existed |-> FALSE,
           n |-> 0, after |-> 0, env |-> NoEnv, artifact |-> NoFile,
           raised |-> NoError, opened |-> 0, unclosed |-> 0, tried |-> << >>,
           method |-> "", issued |-> << >>, failed |-> 0]

InitBuild ==
    /\ DB_BACKEND \in Selectors
    /\ drivers \in SUBSET Drivers
    /\ handler = NotBuilt
    /\ called = {}
    /\ message = NoMessage
    /\ connections = 0
    /\ kind = lower(DB_BACKEND)
    /\ json_file = << >>
    /\ csv_file = [header |-> << >>, lines |-> << >>]
    /\ table = {}
    /\ lastOp = NoCall
    /\ calls = [p \in Procs |-> Idle]
    /\ writer = NoWriter
    /\ deleted = [record_id \in RaceIds |-> "no"]
    /\ store = "present"
    /\ dsn = NoDsn
    /\ environ = {}
    /\ attributes = NoAttributes
    /\ items = << >>
    /\ outbox = << >>
    /\ result = NoExecute

NextBuild ==
    \/ build_database_handler
    \/ \E method \in AbstractMethods : Invoke(method)

SpecBuild == InitBuild /\ [][NextBuild]_vars

(***************************************************************************)
(* backup and close.  A file at the target path is its format and the      *)
(* payloads it holds, in file order.                                       *)
(***************************************************************************)
PartialFile == [format |-> "partial", entries |-> << >>]
TargetFiles == {NoFile, OldFile}

\* the orders in which a cursor over the table may return its rows (the
\* SELECT has no ORDER BY)
Orders(tbl) ==
    {order \in [1..Cardinality(tbl) -> {row.k : row \in tbl}] :
        \A i, j \in 1..Cardinality(tbl) : order[i] = order[j] => i = j}

\* the data column of the rows in cursor order
cursor(tbl, order) ==
    [i \in 1..Len(order) |-> (CHOOSE row \in tbl : row.k = order[i]).data]

Returned(file) == [ret |-> TRUE, raised |-> NoError, artifact |-> file]
Raised(what, tool, code, file) ==
    [ret |-> FALSE, raised |-> <<what, tool, code>>, artifact |-> file]

\* shutil.copy2(self.file_path, target)
JSON_backup(file) == Returned([format |-> "json", entries |-> file])

\* shutil.copy2(self.db_path, target)
SQLite_backup(tbl, order) ==
    Returned([format |-> "sqlite", entries |-> cursor(tbl, order)])

\* handle.write(json.dumps([json.loads(row[0]) for row in cur]))
Stream_backup(tbl, order) ==
    LET rows == [i \in 1..Len(order) |-> json_loads(cursor(tbl, order)[i])]
    IN  Returned([format |-> "json", entries |-> JSON_write_all(rows)])

\* the dump executables, the exit codes they may end with, and the file a
\* dump that exits with 0 writes
DumpTools == {"pg_dump", "mysqldump", "mariadb-dump"}
ExitCodes == {0, 1}
DumpKinds == {"postgresql", "mysql", "mariadb"}
Dump(tool, tbl, order) == [format |-> tool, entries |-> cursor(tbl, order)]

\* subprocess.run(command) without check=True
run_unchecked(tool, PATH, exit) ==
    IF tool \notin PATH THEN "FileNotFoundError" ELSE "ok"

\* subprocess.run(command, check=True)
run(tool, PATH, exit) ==
    IF tool \notin PATH THEN "FileNotFoundError"
    ELSE IF exit # 0 THEN "CalledProcessError"
    ELSE "ok"

\* pg_dump -f target: pg_dump opens the target itself; when it fails it has
\* written nothing (the file is as it was) or a part of the dump
Postgres_backup(tbl, order, prior, PATH, exit, partial) ==
    LET r == run("pg_dump", PATH, exit)
    IN  CASE r = "FileNotFoundError" ->
               Raised("not found in PATH", "pg_dump", 0, prior)
          [] r = "CalledProcessError" ->
               Raised("failed with exit code", "pg_dump", exit,
                      IF partial THEN PartialFile ELSE prior)
          [] OTHER -> Returned(Dump("pg_dump", tbl, order))

\* target.open("w") truncates the target before mysqldump runs with the
\* file as its stdout
MySQL_backup(tbl, order, prior, PATH, exit, partial) ==
    LET r == run("mysqldump", PATH, exit)
    IN  CASE r = "FileNotFoundError" ->
               Raised("not found in PATH", "mysqldump", 0, EmptyFile)
          [] r = "CalledProcessError" ->
               Raised("failed with exit code", "mysqldump", exit,
                      IF partial THEN PartialFile ELSE EmptyFile)
          [] OTHER -> Returned(Dump("mysqldump", tbl, order))

\* backup that runs mariadb-dump only
MariaDB_backup_primary_only(tbl, order, prior, PATH, exit, partial) ==
    LET r    == run("mariadb-dump", PATH, exit)
        left == IF partial THEN PartialFile ELSE EmptyFile
    IN  CASE r = "FileNotFoundError" ->
               Raised("not found in PATH", "mariadb-dump/mysqldump", 0,
                      EmptyFile)
          [] r = "CalledProcessError" ->
               Raised("failed with exit code", "mariadb-dump", exit, left)
          [] OTHER -> Returned(Dump("mariadb-dump", tbl, order))

\* mariadb-dump, and mysqldump when mariadb-dump is not found
MariaDB_backup(tbl, order, prior, PATH, exit, partial) ==
    LET r        == run("mariadb-dump", PATH, exit)
        fallback == run("mysqldump", PATH, exit)
        left     == IF partial THEN PartialFile ELSE EmptyFile
    IN  CASE r = "FileNotFoundError" /\ fallback = "FileNotFoundError" ->
               Raised("not found in PATH", "mariadb-dump/mysqldump", 0,
                      EmptyFile)
          [] r = "FileNotFoundError" /\ fallback = "CalledProcessError" ->
               Raised("failed with exit code", "mysqldump", exit, left)
          [] r = "FileNotFoundError" /\ fallback = "ok" ->
               Returned(Dump("mysqldump", tbl, order))
          [] r = "CalledProcessError" ->
               Raised("failed with exit code", "mariadb-dump", exit, left)
          [] OTHER -> Returned(Dump("mariadb-dump", tbl, order))

\* the executables backup of a dump-tool handler tries
dump_commands(backend) ==
    CASE backend = "postgresql" -> {"pg_dump"}
      [] backend = "mysql"      -> {"mysqldump"}
      [] backend = "mariadb"    -> {"mariadb-dump", "mysqldump"}
      [] OTHER                  -> {}

\* the executable named by command[0] (MariaDB: dump_cmd[0])
primary(backend) ==
    CASE backend = "postgresql" -> "pg_dump"
      [] backend = "mysql"      -> "mysqldump"
      [] backend = "mariadb"    -> "mariadb-dump"

\* the subprocess.run calls of one backup call, in order: the command, and
\* in the MariaDB handler the fallback (fallback[0] = "mysqldump") inside
\* "except FileNotFoundError"
invoked(backend, PATH) ==
    IF backend = "mariadb" /\ "mariadb-dump" \notin PATH
    THEN <<"mariadb-dump", "mysqldump">>
    ELSE <<primary(backend)>>

\* close that empties the stores
close_dropping(stores) == <<<< >>, EmptyCsv, {}>>

\* close: "return None" (in CSVDatabaseHandler, JSONDatabaseHandler and
\* SQLiteDatabaseHandler the body inherited from DatabaseHandler, which is
\* its docstring)
close(stores) == stores

(***************************************************************************)
(* The handler as its caller sees it (DatabaseHandler, base.py): what      *)
(* read(record_id) returns in the current state, and the record of one     *)
(* call.                                                                   *)
(***************************************************************************)
read(record_id) ==
    CASE kind = "json" -> JSON_read(json_file, record_id)
      [] kind = "csv"  -> CSV_read(csv_file, record_id)
      [] OTHER         -> SQL_read(table, record_id)

\* uuid.uuid4().hex: a token no stored record carries
uuid4_hex(record) ==
    IF Generates(record) THEN {u \in UuidHex : ~read(u).found} ELSE {NoUuid}

\* self._connect() as it is called by one call of a method: create, read and
\* delete enter one "with self._connect() as conn" block; update calls
\* self.read and, when that found a record, self.create; __init__ calls
\* self._ensure_table(), which enters one block; backup of the MSSQL
\* and Oracle handlers enters one block, backup of the other handlers (a
\* file copy, a dump executable) and close enter none
connects(backend, op, found) ==
    IF backend \notin SqlKinds THEN 0
    ELSE CASE op \in {"create", "read", "delete"} -> 1
           [] op = "update" -> IF found THEN 2 ELSE 1
           [] op = "backup" -> IF backend \in {"mssql", "oracle"} THEN 1 ELSE 0
           [] op = "__init__" -> 1
           [] OTHER -> 0

\* whether leaving the "with" block closes the connection: the connections
\* of psycopg, mysql.connector and oracledb close in __exit__; those of
\* sqlite3 and pyodbc only commit or roll back, and no handler calls
\* conn.close()
with_closes(backend) == backend \in {"postgresql", "mysql", "mariadb", "oracle"}

\* the storage statements of one call of a CRUD method: the file handlers
\* load the file and, unless the call is a read or matched no row, rewrite
\* it; the SQL handlers execute one statement, update the SELECT of
\* self.read and, when that found a record, the upsert of self.create
CrudMethods == {"create", "read", "update", "delete"}
statements(backend, op, found) ==
    IF op \notin CrudMethods THEN << >>
    ELSE IF backend \in FileKinds
    THEN IF op = "read" \/ (op \in {"update", "delete"} /\ ~found)
         THEN <<"_read_all">> ELSE <<"_read_all", "_write_all">>
    ELSE CASE op = "create" -> <<"upsert">>
           [] op = "read"   -> <<"select">>
           [] op = "update" -> IF found THEN <<"select", "upsert">>
                               ELSE <<"select">>
           [] op = "delete" -> <<"delete">>

\* the failures the storage layer raises: OSError from the file system,
\* the driver's OperationalError from a connection or a statement
StorageErrors(backend) ==
    IF backend \in FileKinds THEN {"OSError"} ELSE {"OperationalError"}

\* a call that runs the statement that failed a second time
attempt_retrying(stmts, at) == Append(SubSeq(stmts, 1, at), stmts[at])

\* the statements a call issues when its statement number `at` raises: no
\* method has a try block around its statements, so the call ends there
attempt(stmts, at) == SubSeq(stmts, 1, at)

\* what the caller gets: the exception as the storage layer raised it
propagate(error, statement) == <<error, statement, 0>>

\* op, rid, arg: the method, the identifier passed or returned, the dict passed
\* found, ret:   whether a record (or True) was returned, and the record
\* existed:      whether read(rid) found a record before the call
\* n:            how many rows a delete removed
\* after:        how many rows the call before removed, if that was a delete
\*               of the same identifier
\* env:          what a backup call found: the executables in PATH, the exit
\*               code of the dump, the file at the target path
\* artifact:     the file at the target path when a backup call ended
\* raised:       the message of the RuntimeError a backup call raised
\* tried:        the executables a backup call ran, in order
\* method:       the method called (op is "failure" for a call that raised
\*               a failure of the storage layer)
\* issued:       the storage statements the call issued, in order
\* failed:       the position in issued of the statement that raised, or 0
\* opened:       how many connections the call opened
\* unclosed:     how many of them the call returned without closing (they
\*               stay open until the garbage collector finalises them)
Call(op, rid, arg, found, ret, n) ==
    [op |-> op, rid |-> rid, arg |-> arg, found |-> found, ret |-> ret,
     existed |-> read(rid).found, n |-> n,
     after |-> IF lastOp.op = "delete" /\ lastOp.rid = rid THEN lastOp.n ELSE 0,
     env |-> NoEnv, artifact |-> NoFile, raised |-> NoError,
     opened |-> connects(kind, op, found),
     unclosed |-> IF with_closes(kind) THEN 0 ELSE connects(kind, op, found),
     tried |-> << >>,
     method |-> op, issued |-> statements(kind, op, found), failed |-> 0]

(***************************************************************************)
(* State after construction: __init__ writes "[]" or an empty file when    *)
(* the file does not exist, _ensure_table creates the empty table.         *)
(***************************************************************************)
Init ==
    /\ kind \in Backends
    /\ json_file = << >>
    /\ csv_file = EmptyCsv
    /\ table = {}
    /\ lastOp = NoCall
    /\ DB_BACKEND = kind
    /\ drivers = Drivers
    /\ handler = NotBuilt
    /\ called = {}
    /\ message = NoMessage
    /\ connections = 0
    /\ calls = [p \in Procs |-> Idle]
    /\ writer = NoWriter
    /\ deleted = [record_id \in RaceIds |-> "no"]
    /\ store = "present"
    /\ dsn = NoDsn
    /\ environ = {}
    /\ attributes = NoAttributes
    /\ items = << >>
    /\ outbox = << >>
    /\ result = NoExecute

(***************************************************************************)
(* JSONDatabaseHandler                                                     *)
(***************************************************************************)
JSONCreate(record) ==
    /\ kind = "json"
    /\ Len(json_file) < MaxRows
    /\ \E uuid_hex \in uuid4_hex(record) :
         LET r == JSON_create(json_file, record, uuid_hex)
         IN  /\ json_file' = r.file
             /\ lastOp' = Call("create", r.ret, record, TRUE, EmptyRecord, 0)
    /\ UNCHANGED <<kind, csv_file, table, build_vars, race_vars, store, dsn_vars, bank_vars>>

JSONRead(record_id) ==
    /\ kind = "json"
    /\ LET r == JSON_read(json_file, record_id)
       IN  lastOp' = Call("read", record_id, EmptyRecord, r.found, r.rec, 0)
    /\ UNCHANGED <<kind, json_file, csv_file, table, build_vars, race_vars, store, dsn_vars, bank_vars>>

JSONUpdate(record_id, updates) ==
    /\ kind = "json"
    /\ LET r == JSON_update(json_file, record_id, updates)
       IN  /\ json_file' = r.file
           /\ lastOp' = Call("update", record_id, updates, r.ret.found,
                             r.ret.rec, 0)
    /\ UNCHANGED <<kind, csv_file, table, build_vars, race_vars, store, dsn_vars, bank_vars>>

JSONDelete(record_id) ==
    /\ kind = "json"
    /\ LET r == JSON_delete(json_file, record_id)
       IN  /\ json_file' = r.file
           /\ lastOp' = Call("delete", record_id, EmptyRecord, r.ret,
                             EmptyRecord, r.n)
    /\ UNCHANGED <<kind, csv_file, table, build_vars, race_vars, store, dsn_vars, bank_vars>>

(***************************************************************************)
(* CSVDatabaseHandler                                                      *)
(***************************************************************************)
CSVCreate(record) ==
    /\ kind = "csv"
    /\ Len(csv_file.lines) < MaxRows
    /\ \E uuid_hex \in uuid4_hex(record) :
         LET r == CSV_create(csv_file, record, uuid_hex)
         IN  /\ csv_file' = r.file
             /\ lastOp' = Call("create", r.ret, record, TRUE, EmptyRecord, 0)
    /\ UNCHANGED <<kind, json_file, table, build_vars, race_vars, store, dsn_vars, bank_vars>>

CSVRead(record_id) ==
    /\ kind = "csv"
    /\ LET r == CSV_read(csv_file, record_id)
       IN  lastOp' = Call("read", record_id, EmptyRecord, r.found, r.rec, 0)
    /\ UNCHANGED <<kind, json_file, csv_file, table, build_vars, race_vars, store, dsn_vars, bank_vars>>

CSVUpdate(record_id, updates) ==
    /\ kind = "csv"
    /\ LET r == CSV_update(csv_file, record_id, updates)
       IN  /\ csv_file' = r.file
           /\ lastOp' = Call("update", record_id, updates, r.ret.found,
                             r.ret.rec, 0)
    /\ UNCHANGED <<kind, json_file, table, build_vars, race_vars, store, dsn_vars, bank_vars>>

CSVDelete(record_id) ==
    /\ kind = "csv"
    /\ LET r == CSV_delete(csv_file, record_id)
       IN  /\ csv_file' = r.file
           /\ lastOp' = Call("delete", record_id, EmptyRecord, r.ret,
                             EmptyRecord, r.n)
    /\ UNCHANGED <<kind, json_file, table, build_vars, race_vars, store, dsn_vars, bank_vars>>

(***************************************************************************)
(* The SQL handlers                                                        *)
(***************************************************************************)
SQLCreate(record) ==
    /\ kind \in SqlKinds
    /\ \E uuid_hex \in uuid4_hex(record) :
         LET r == SQL_create(table, record, uuid_hex)
         IN  /\ Cardinality(r.table) <= MaxRows
             /\ table' = r.table
             /\ lastOp' = Call("create", r.ret, record, TRUE, EmptyRecord, 0)
    /\ UNCHANGED <<kind, json_file, csv_file, build_vars, race_vars, store, dsn_vars, bank_vars>>

SQLRead(record_id) ==
    /\ kind \in SqlKinds
    /\ LET r == SQL_read(table, record_id)
       IN  lastOp' = Call("read", record_id, EmptyRecord, r.found, r.rec, 0)
    /\ UNCHANGED <<kind, json_file, csv_file, table, build_vars, race_vars, store, dsn_vars, bank_vars>>

SQLUpdate(record_id, updates) ==
    /\ kind \in SqlKinds
    /\ LET r == SQL_update(table, record_id, updates, NoUuid)
       IN  /\ table' = r.table
           /\ lastOp' = Call("update", record_id, updates, r.ret.found,
                             r.ret.rec, 0)
    /\ UNCHANGED <<kind, json_file, csv_file, build_vars, race_vars, store, dsn_vars, bank_vars>>

SQLDelete(record_id) ==
    /\ kind \in SqlKinds
    /\ LET r == SQL_delete(table, record_id)
       IN  /\ table' = r.table
           /\ lastOp' = Call("delete", record_id, EmptyRecord, r.ret,
                             EmptyRecord, r.n)
    /\ UNCHANGED <<kind, json_file, csv_file, build_vars, race_vars, store, dsn_vars, bank_vars>>

(***************************************************************************)
(* A CRUD call during which the storage layer raises.  The statements      *)
(* before the failing one have run.  A failing SQL statement changes       *)
(* nothing (nothing is committed); a failing _write_all leaves the file as *)
(* it was (open failed) or truncated (the write failed).  The record or    *)
(* partial record passed has no effect and is not recorded.                *)
(***************************************************************************)
Failure(op, rid, at, error) ==
    LET stmts == statements(kind, op, op = "create" \/ read(rid).found)
    IN  /\ at \in 1..Len(stmts)
        /\ lastOp' = [Call(op, rid, EmptyRecord, FALSE, EmptyRecord, 0) EXCEPT
                         !.op = "failure",
                         !.issued = attempt(stmts, at),
                         !.failed = at,
                         !.raised = propagate(error, stmts[at]),
                         !.opened = IF kind \in SqlKinds THEN at ELSE 0,
                         !.unclosed = IF with_closes(kind) \/ kind \in FileKinds
                                      THEN 0 ELSE at]
        /\ IF stmts[at] = "_write_all"
           THEN \E truncated \in BOOLEAN :
                  IF kind = "json"
                  THEN /\ json_file' = IF truncated THEN << >> ELSE json_file
                       /\ UNCHANGED csv_file
                  ELSE /\ csv_file' = IF truncated THEN EmptyCsv ELSE csv_file
                       /\ UNCHANGED json_file
           ELSE UNCHANGED <<json_file, csv_file>>
        /\ UNCHANGED <<kind, table, build_vars, race_vars, store, dsn_vars, bank_vars>>

(***************************************************************************)
(* backup(target_path) and close() of the handler                          *)
(***************************************************************************)
\* backup that moves the backing store to the target
backup_store_moving(stores) == <<<< >>, stores[2], {}>>

\* what backup does to the backing store: shutil.copy2 opens the file to
\* read it, the streaming handlers execute a SELECT, the dump tools read
\* the database; no backup writes to the store
backup_store(stores) == stores

BackupCall(r, env) ==
    [Call("backup", "", EmptyRecord, r.ret, EmptyRecord, 0)
        EXCEPT !.env = env, !.artifact = r.artifact, !.raised = r.raised]

JSONBackup(prior) ==
    /\ kind = "json"
    /\ lastOp' = BackupCall(JSON_backup(json_file),
                            [NoEnv EXCEPT !.prior = prior])
    /\ LET stores == backup_store(<<json_file, csv_file, table>>)
       IN  /\ json_file' = stores[1]
           /\ csv_file' = stores[2]
           /\ table' = stores[3]
    /\ UNCHANGED <<kind, build_vars, race_vars, store, dsn_vars, bank_vars>>

SQLiteBackup(prior) ==
    /\ kind = "sqlite"
    /\ \E order \in Orders(table) :
         lastOp' = BackupCall(SQLite_backup(table, order),
                              [NoEnv EXCEPT !.prior = prior])
    /\ LET stores == backup_store(<<json_file, csv_file, table>>)
       IN  /\ json_file' = stores[1]
           /\ csv_file' = stores[2]
           /\ table' = stores[3]
    /\ UNCHANGED <<kind, build_vars, race_vars, store, dsn_vars, bank_vars>>

StreamBackup(prior) ==
    /\ kind \in {"mssql", "oracle"}
    /\ \E order \in Orders(table) :
         lastOp' = BackupCall(Stream_backup(table, order),
                              [NoEnv EXCEPT !.prior = prior])
    /\ LET stores == backup_store(<<json_file, csv_file, table>>)
       IN  /\ json_file' = stores[1]
           /\ csv_file' = stores[2]
           /\ table' = stores[3]
    /\ UNCHANGED <<kind, build_vars, race_vars, store, dsn_vars, bank_vars>>

DumpBackup(prior, PATH, exit) ==
    /\ kind \in DumpKinds
    /\ \E order \in Orders(table), partial \in BOOLEAN :
         LET r == CASE kind = "postgresql" ->
                        Postgres_backup(table, order, prior, PATH, exit, partial)
                   [] kind = "mysql" ->
                        MySQL_backup(table, order, prior, PATH, exit, partial)
                   [] kind = "mariadb" ->
                        MariaDB_backup(table, order, prior, PATH, exit, partial)
         IN  lastOp' = [BackupCall(r, [PATH |-> PATH, exit |-> exit,
                                       prior |-> prior])
                           EXCEPT !.tried = invoked(kind, PATH)]
    /\ LET stores == backup_store(<<json_file, csv_file, table>>)
       IN  /\ json_file' = stores[1]
           /\ csv_file' = stores[2]
           /\ table' = stores[3]
    /\ UNCHANGED <<kind, build_vars, race_vars, store, dsn_vars, bank_vars>>

Close ==
    /\ LET stores == close(<<json_file, csv_file, table>>)
       IN  /\ json_file' = stores[1]
           /\ csv_file' = stores[2]
           /\ table' = stores[3]
    /\ lastOp' = Call("close", "", EmptyRecord, FALSE, EmptyRecord, 0)
    /\ UNCHANGED <<kind, build_vars, race_vars, store, dsn_vars, bank_vars>>

Next ==
    \/ \E prior \in TargetFiles : JSONBackup(prior)
    \/ \E prior \in TargetFiles : SQLiteBackup(prior)
    \/ \E prior \in TargetFiles : StreamBackup(prior)
    \/ \E prior \in TargetFiles, PATH \in SUBSET dump_commands(kind),
          exit \in ExitCodes : DumpBackup(prior, PATH, exit)
    \/ Close
    \/ \E record \in Records : JSONCreate(record)
    \/ \E record_id \in CallIds : JSONRead(record_id)
    \/ \E record_id \in CallIds, updates \in Updates : JSONUpdate(record_id, updates)
    \/ \E record_id \in CallIds : JSONDelete(record_id)
    \/ \E record \in Records : CSVCreate(record)
    \/ \E record_id \in CallIds : CSVRead(record_id)
    \/ \E record_id \in CallIds, updates \in Updates : CSVUpdate(record_id, updates)
    \/ \E record_id \in CallIds : CSVDelete(record_id)
    \/ \E record \in Records : SQLCreate(record)
    \/ \E record_id \in CallIds : SQLRead(record_id)
    \/ \E record_id \in CallIds, updates \in Updates : SQLUpdate(record_id, updates)
    \/ \E record_id \in CallIds : SQLDelete(record_id)

Spec == Init /\ [][Next]_vars

\* the calls of Spec, and calls during which the storage layer raises
NextFailure ==
    \/ Next
    \/ \E at \in 1..2, error \in StorageErrors(kind) :
          Failure("create", "", at, error)
    \/ \E op \in {"read", "update", "delete"}, record_id \in CallIds,
          at \in 1..2, error \in StorageErrors(kind) :
          Failure(op, record_id, at, error)

SpecFailure == Init /\ [][NextFailure]_vars

(***************************************************************************)
(* Construction.  Before the first handler is constructed the backing file *)
(* or table does not exist; a handler may be constructed again over the    *)
(* store an earlier one left (a restart of the service).                   *)
(***************************************************************************)
\* __init__ that writes the empty store without looking for an existing one
construct_fresh(backend, exists, stores) == <<<< >>, EmptyCsv, {}>>

\* __init__: "if not self.file_path.exists(): write_text('[]')" (JSON),
\* write_text('') (CSV); _ensure_table() of the SQL handlers: CREATE TABLE IF
\* NOT EXISTS (MSSQL: IF NOT EXISTS (SELECT ... sysobjects) CREATE TABLE;
\* Oracle: the CREATE TABLE runs when user_tables has no such table)
construct(backend, exists, stores) ==
    CASE backend = "json" -> <<IF ~exists THEN << >> ELSE stores[1],
                               stores[2], stores[3]>>
      [] backend = "csv"  -> <<stores[1],
                               IF ~exists THEN EmptyCsv ELSE stores[2],
                               stores[3]>>
      [] OTHER            -> <<stores[1], stores[2],
                               IF ~exists THEN {} ELSE stores[3]>>

Construct ==
    /\ LET stores == construct(kind, store = "present",
                               <<json_file, csv_file, table>>)
       IN  /\ json_file' = stores[1]
           /\ csv_file' = stores[2]
           /\ table' = stores[3]
    /\ store' = "present"
    /\ lastOp' = [Call("__init__", "", EmptyRecord, FALSE, EmptyRecord, 0)
                     EXCEPT !.existed = (store = "present")]
    /\ UNCHANGED <<kind, build_vars, race_vars, dsn_vars, bank_vars>>

InitConstruct ==
    /\ kind \in Backends
    /\ json_file = << >>
    /\ csv_file = EmptyCsv
    /\ table = {}
    /\ lastOp = NoCall
    /\ DB_BACKEND = kind
    /\ drivers = Drivers
    /\ handler = NotBuilt
    /\ called = {}
    /\ message = NoMessage
    /\ connections = 0
    /\ calls = [p \in Procs |-> Idle]
    /\ writer = NoWriter
    /\ deleted = [record_id \in RaceIds |-> "no"]
    /\ store = "missing"
    /\ dsn = NoDsn
    /\ environ = {}
    /\ attributes = NoAttributes
    /\ items = << >>
    /\ outbox = << >>
    /\ result = NoExecute

NextConstruct ==
    \/ Construct
    \/ store = "present" /\ Next

SpecConstruct == InitConstruct /\ [][NextConstruct]_vars

(***************************************************************************)
(* The DSN of the networked handlers.  urlparse(dsn) yields the components *)
(* the DSN has (username, password, hostname, port, path) and None for the *)
(* others; "a or b" is b when a is None or empty.  Values are texts: a     *)
(* component of the DSN, "$NAME" for the value of the environment variable *)
(* NAME, or a literal of the code.                                         *)
(***************************************************************************)
DsnKinds == {"postgresql", "mysql", "mariadb"}

\* the DSNs passed to __init__: each component given or not, the password
\* also given empty (user:@host)
Dsns == [host : {null, "h"}, port : {null, "6543"}, user : {null, "u"},
         password : {null, "", "p"}, database : {null, "d"}]

\* the environment variables that carry a connection parameter of the engine
EnvNames(backend) ==
    CASE backend = "postgresql" ->
           {"POSTGRES_HOST", "POSTGRES_PORT", "POSTGRES_USER",
            "POSTGRES_PASSWORD", "POSTGRES_DB"}
      [] backend = "mysql" ->
           {"MYSQL_HOST", "MYSQL_PORT", "MYSQL_USER", "MYSQL_PASSWORD",
            "MYSQL_DB"}
      [] backend = "mariadb" ->
           {"MARIADB_HOST", "MARIADB_PORT", "MARIADB_USER",
            "MARIADB_PASSWORD", "MARIADB_DB", "MYSQL_HOST", "MYSQL_PORT",
            "MYSQL_USER", "MYSQL_PASSWORD", "MYSQL_DB"}

\* a or b
Or(a, b) == IF a = null \/ a = "" THEN b ELSE a

\* os.getenv(name, default)
getenv(env, name, default) == IF name \in env THEN "$" \o name ELSE default

\* PostgresDatabaseHandler.__init__ and _parse_dsn
Postgres_attributes(d, env) ==
    [host     |-> Or(d.host, "localhost"),
     port     |-> Or(d.port, "5432"),
     user     |-> Or(d.user, getenv(env, "POSTGRES_USER", "user")),
     password |-> Or(d.password, getenv(env, "POSTGRES_PASSWORD", "password")),
     database |-> Or(Or(d.database, null), getenv(env, "POSTGRES_DB", "app"))]

\* MySQLDatabaseHandler._parse_dsn
MySQL_parse_dsn(d, env) ==
    [user     |-> Or(d.user, getenv(env, "MYSQL_USER", null)),
     password |-> Or(d.password, getenv(env, "MYSQL_PASSWORD", null)),
     host     |-> Or(d.host, getenv(env, "MYSQL_HOST", "localhost")),
     port     |-> Or(d.port, getenv(env, "MYSQL_PORT", "3306")),
     database |-> Or(d.database, getenv(env, "MYSQL_DB", null))]

\* MariaDBDatabaseHandler._parse_dsn
MariaDB_parse_dsn(d, env) ==
    [user     |-> Or(Or(d.user, getenv(env, "MARIADB_USER", null)),
                     getenv(env, "MYSQL_USER", null)),
     password |-> Or(Or(d.password, getenv(env, "MARIADB_PASSWORD", null)),
                     getenv(env, "MYSQL_PASSWORD", null)),
     host     |-> Or(d.host, getenv(env, "MARIADB_HOST",
                                    getenv(env, "MYSQL_HOST", "localhost"))),
     port     |-> Or(d.port, getenv(env, "MARIADB_PORT",
                                    getenv(env, "MYSQL_PORT", "3306"))),
     database |-> Or(Or(d.database, getenv(env, "MARIADB_DB", null)),
                     getenv(env, "MYSQL_DB", null))]

\* self.host, self.port, self.user, self.password, self.dbname of the MySQL
\* and MariaDB handlers, from the parsed DSN
connector_attributes(kwargs) ==
    [host     |-> Or(kwargs.host, "localhost"),
     port     |-> Or(kwargs.port, "3306"),
     user     |-> Or(kwargs.user, "root"),
     password |-> Or(kwargs.password, ""),
     database |-> Or(kwargs.database, "app")]

\* the attributes __init__ sets from the DSN and the environment
parse_dsn(backend, d, env) ==
    CASE backend = "postgresql" -> Postgres_attributes(d, env)
      [] backend = "mysql"      -> connector_attributes(MySQL_parse_dsn(d, env))
      [] backend = "mariadb"    -> connector_attributes(MariaDB_parse_dsn(d, env))

\* __init__ of a networked handler, up to self._ensure_table()
ParseDsn ==
    /\ kind \in DsnKinds
    /\ attributes = NoAttributes
    /\ attributes' = parse_dsn(kind, dsn, environ)
    /\ UNCHANGED <<kind, json_file, csv_file, table, lastOp, build_vars,
                   race_vars, store, dsn, environ, bank_vars>>

InitDsn ==
    /\ kind \in DsnKinds
    /\ json_file = << >>
    /\ csv_file = EmptyCsv
    /\ table = {}
    /\ lastOp = NoCall
    /\ DB_BACKEND = kind
    /\ drivers = Drivers
    /\ handler = NotBuilt
    /\ called = {}
    /\ message = NoMessage
    /\ connections = 0
    /\ calls = [p \in Procs |-> Idle]
    /\ writer = NoWriter
    /\ deleted = [record_id \in RaceIds |-> "no"]
    /\ store = "missing"
    /\ dsn \in Dsns
    /\ environ \in SUBSET EnvNames(kind)
    /\ attributes = NoAttributes
    /\ items = << >>
    /\ outbox = << >>
    /\ result = NoExecute

NextDsn == ParseDsn

SpecDsn == InitDsn /\ [][NextDsn]_vars

(***************************************************************************)
(* Two callers of one handler (threads, or processes that share the file   *)
(* or the database).  No handler takes a lock, so the statements of two    *)
(* calls interleave.  A call of a file handler is _read_all(), the change   *)
(* of the rows in memory, and _write_all(rows), which opens the file for    *)
(* writing (truncating it) and then writes the text; a call of an SQL       *)
(* handler is one statement, and update is a SELECT followed by the upsert. *)
(*                                                                         *)
(* calls[p]: pc       where the caller is in its call                      *)
(*           op, rid, arg   the method, the identifier, the dict passed    *)
(*           pending  the file content _write_all is going to write        *)
(*           before   the file content when _write_all opened the file     *)
(*           existing what the SELECT of update returned                   *)
(*           found, ret     what the call returns                          *)
(*           stale    another caller has written the store since this call *)
(*                    read it                                              *)
(*           overlap  "create" when another caller was in a create of the  *)
(*                    same identifier during this call, "call" when in     *)
(*                    another create, update or delete, "" otherwise       *)
(* deleted[id] is "yes" or "overlapped" (by another call) when a delete of  *)
(* id has returned true and no create of id was under way meanwhile or was  *)
(* issued since, "no" otherwise.                                            *)
(***************************************************************************)
\* the calls the two callers issue
RaceRecords == {[id |-> <<"int", "7">>],
                [id |-> <<"int", "8">>, a |-> <<"int", "1">>]}
RaceUpdates == {[a |-> <<"int", "3">>], [b |-> <<"int", "2">>]}

\* a file handler's callers create, read and delete; an SQL handler's
\* callers also update
RaceOps == IF kind \in FileKinds THEN {"create", "read", "delete"}
           ELSE {"create", "read", "update", "delete"}

file == IF kind = "json" THEN json_file ELSE csv_file

\* the result of the method applied to the file content f that _read_all()
\* loaded: the content to write (f when nothing is written) and what the
\* call returns
on_rows(c, f) ==
    CASE kind = "json" /\ c.op = "create" ->
           [file |-> JSON_create(f, c.arg, NoUuid).file, found |-> TRUE,
            ret |-> EmptyRecord]
      [] kind = "json" /\ c.op = "read" ->
           [file |-> f, found |-> JSON_read(f, c.rid).found,
            ret |-> JSON_read(f, c.rid).rec]
      [] kind = "json" /\ c.op = "update" ->
           [file |-> JSON_update(f, c.rid, c.arg).file,
            found |-> JSON_update(f, c.rid, c.arg).ret.found,
            ret |-> JSON_update(f, c.rid, c.arg).ret.rec]
      [] kind = "json" /\ c.op = "delete" ->
           [file |-> JSON_delete(f, c.rid).file,
            found |-> JSON_delete(f, c.rid).ret, ret |-> EmptyRecord]
      [] kind = "csv" /\ c.op = "create" ->
           [file |-> CSV_create(f, c.arg, NoUuid).file, found |-> TRUE,
            ret |-> EmptyRecord]
      [] kind = "csv" /\ c.op = "read" ->
           [file |-> f, found |-> CSV_read(f, c.rid).found,
            ret |-> CSV_read(f, c.rid).rec]
      [] kind = "csv" /\ c.op = "update" ->
           [file |-> CSV_update(f, c.rid, c.arg).file,
            found |-> CSV_update(f, c.rid, c.arg).ret.found,
            ret |-> CSV_update(f, c.rid, c.arg).ret.rec]
      [] kind = "csv" /\ c.op = "delete" ->
           [file |-> CSV_delete(f, c.rid).file,
            found |-> CSV_delete(f, c.rid).ret, ret |-> EmptyRecord]

\* a _write_all that takes a lock, loads the file again and writes the
\* change applied to what it finds
to_write_locked(c) == on_rows(c, c.before).file

\* what _write_all(rows) writes: the rows the call loaded, with its change
to_write(c) == c.pending

\* every other caller that holds rows it read before this write
outdated(p) ==
    [q \in Procs |->
        IF q # p /\ (\/ calls[q].pc \in {"write_all", "writing"}
                     \/ calls[q].pc = "execute" /\ calls[q].op = "update")
        THEN [calls[q] EXCEPT !.stale = TRUE]
        ELSE calls[q]]

\* the caller enters record = ensure_id(record); ...
Begin(p, op, rid, arg) ==
    /\ calls[p].pc = "idle"
    /\ op \in RaceOps
    /\ LET busy == {q \in Procs : calls[q].pc # "idle"}
       IN  calls' = [q \in Procs |->
                       IF q = p
                       THEN [Idle EXCEPT
                               !.op = op, !.rid = rid, !.arg = arg,
                               !.overlap =
                                  IF \E b \in busy : /\ calls[b].op = "create"
                                                     /\ calls[b].rid = rid
                                  THEN "create"
                                  ELSE IF \E b \in busy : calls[b].op # "read"
                                  THEN "call" ELSE "",
                               !.pc = IF kind \in FileKinds THEN "read_all"
                                      ELSE IF op \in {"read", "update"}
                                      THEN "select" ELSE "execute"]
                       ELSE IF q \in busy
                       THEN [calls[q] EXCEPT !.overlap =
                               IF \/ op = "create" /\ rid = calls[q].rid
                                  \/ calls[q].overlap = "create"
                               THEN "create"
                               ELSE IF op # "read" THEN "call"
                               ELSE calls[q].overlap]
                       ELSE calls[q]]
    /\ deleted' = IF op = "create" /\ rid \in DOMAIN deleted
                  THEN [deleted EXCEPT ![rid] = "no"] ELSE deleted
    /\ UNCHANGED <<kind, json_file, csv_file, table, lastOp, build_vars, writer,
                   store, dsn_vars, bank_vars>>

\* rows = self._read_all() and the change of rows in memory; read, and an
\* update or delete that matched no row, return without writing
FileReadAll(p) ==
    /\ kind \in FileKinds
    /\ calls[p].pc = "read_all"
    /\ calls[p].op = "create" =>
          (IF kind = "json" THEN Len(json_file) ELSE Len(csv_file.lines)) < MaxRows
    /\ LET r == on_rows(calls[p], file)
       IN  calls' = [calls EXCEPT ![p].pending = r.file,
                                  ![p].found = r.found,
                                  ![p].ret = r.ret,
                                  ![p].pc = IF calls[p].op = "read" \/ ~r.found
                                            THEN "done" ELSE "write_all"]
    /\ UNCHANGED <<kind, json_file, csv_file, table, lastOp, build_vars, writer,
                   deleted, store, dsn_vars, bank_vars>>

\* _write_all: write_text / open("w") opens the file, which truncates it
FileOpen(p) ==
    /\ kind \in FileKinds
    /\ calls[p].pc = "write_all"
    /\ calls' = [calls EXCEPT ![p].pc = "writing", ![p].before = file]
    /\ IF kind = "json"
       THEN json_file' = << >> /\ UNCHANGED csv_file
       ELSE csv_file' = EmptyCsv /\ UNCHANGED json_file
    /\ UNCHANGED <<kind, table, lastOp, build_vars, writer,
                   deleted, store, dsn_vars, bank_vars>>

\* _write_all: the text of the rows is written and the file closed
FileWrite(p) ==
    /\ kind \in FileKinds
    /\ calls[p].pc = "writing"
    /\ IF kind = "json"
       THEN json_file' = to_write(calls[p]) /\ UNCHANGED csv_file
       ELSE csv_file' = to_write(calls[p]) /\ UNCHANGED json_file
    /\ calls' = [outdated(p) EXCEPT ![p].pc = "done", ![p].before = << >>]
    /\ writer' = p
    /\ UNCHANGED deleted
    /\ UNCHANGED <<kind, table, lastOp, build_vars, store, dsn_vars, bank_vars>>

\* existing = self.read(record_id) of update, and the SELECT of read
SQLSelect(p) ==
    /\ kind \in SqlKinds
    /\ calls[p].pc = "select"
    /\ LET existing == SQL_read(table, calls[p].rid)
       IN  calls' = [calls EXCEPT
                       ![p].existing = existing,
                       ![p].found = existing.found,
                       ![p].ret = IF ~existing.found THEN EmptyRecord
                                  ELSE IF calls[p].op = "read" THEN existing.rec
                                  ELSE merged(existing.rec, calls[p].arg,
                                              calls[p].rid),
                       ![p].pc = IF calls[p].op = "read" \/ ~existing.found
                                 THEN "done" ELSE "execute"]
    /\ UNCHANGED <<kind, json_file, csv_file, table, lastOp, build_vars, writer,
                   deleted, store, dsn_vars, bank_vars>>

\* an update whose upsert merges the partial record into the row the table
\* holds when the statement runs
SQL_update_write_atomic(tbl, existing, record_id, updates) ==
    SQL_update(tbl, record_id, updates, NoUuid).table

\* self.create(updated) of update, updated being the merge of the record
\* the SELECT returned
SQL_update_write(tbl, existing, record_id, updates) ==
    SQL_create(tbl, merged(existing.rec, updates, record_id), NoUuid).table

\* the upsert of create and of update, the DELETE of delete
SQLExecute(p) ==
    /\ kind \in SqlKinds
    /\ calls[p].pc = "execute"
    /\ LET c == calls[p]
       IN  CASE c.op = "create" ->
                  /\ table' = SQL_create(table, c.arg, NoUuid).table
                  /\ calls' = [outdated(p) EXCEPT ![p].pc = "done",
                                                  ![p].found = TRUE]
             [] c.op = "update" ->
                  /\ table' = SQL_update_write(table, c.existing, c.rid, c.arg)
                  /\ calls' = [outdated(p) EXCEPT ![p].pc = "done"]
             [] c.op = "delete" ->
                  /\ table' = SQL_delete(table, c.rid).table
                  /\ calls' = [outdated(p) EXCEPT
                                  ![p].pc = "done",
                                  ![p].found = SQL_delete(table, c.rid).ret]
    /\ writer' = p
    /\ UNCHANGED deleted
    /\ UNCHANGED <<kind, json_file, csv_file, lastOp, build_vars, store, dsn_vars, bank_vars>>

\* the call returns to its caller
Return(p) ==
    /\ calls[p].pc = "done"
    /\ calls' = [calls EXCEPT ![p] = Idle]
    /\ deleted' = IF /\ calls[p].op = "delete"
                     /\ calls[p].found
                     /\ calls[p].overlap # "create"
                  THEN [deleted EXCEPT ![calls[p].rid] =
                           IF calls[p].overlap = "call" THEN "overlapped"
                           ELSE "yes"]
                  ELSE deleted
    /\ UNCHANGED <<kind, json_file, csv_file, table, lastOp, build_vars, writer,
                   store, dsn_vars, bank_vars>>

InitRace == Init

NextRace ==
    \/ \E p \in Procs, record \in RaceRecords :
          Begin(p, "create", PyStr(record[id_field]), ensure_id(record, NoUuid))
    \/ \E p \in Procs, record_id \in RaceIds :
          Begin(p, "read", record_id, EmptyRecord)
    \/ \E p \in Procs, record_id \in RaceIds, updates \in RaceUpdates :
          Begin(p, "update", record_id, updates)
    \/ \E p \in Procs, record_id \in RaceIds :
          Begin(p, "delete", record_id, EmptyRecord)
    \/ \E p \in Procs : FileReadAll(p)
    \/ \E p \in Procs : FileOpen(p)
    \/ \E p \in Procs : FileWrite(p)
    \/ \E p \in Procs : SQLSelect(p)
    \/ \E p \in Procs : SQLExecute(p)
    \/ \E p \in Procs : Return(p)

SpecRace == InitRace /\ [][NextRace]_vars

(***************************************************************************)
(* The banking module (modules/banking): accounts kept by                  *)
(* InMemoryAccountRepository, BalanceAlertService.execute, and the alerts  *)
(* the notifier was asked to send.  A float is <<"float", n>>, NaN is       *)
(* <<"nan", 0>>.                                                           *)
(***************************************************************************)
MaxAlerts  == 2

\* @dataclass class Account
Accounts ==
    [id          : {"acc-123", "acc-456"},
     owner_email : {"user@example.com", "other@example.com"},
     balance     : {<<"float", 49>>, <<"float", 50>>, <<"nan", 0>>},
     updated_at  : {"utcnow"}]

\* a < b on floats: False when either is NaN
less_than(a, b) == a[1] = "float" /\ b[1] = "float" /\ a[2] < b[2]

\* self.items.get(account_id)
get(accounts, account_id) ==
    IF account_id \in DOMAIN accounts THEN accounts[account_id]
    ELSE NoAccount

\* self.items[account.id] = account
save(accounts, account) ==
    [k \in DOMAIN accounts \cup {account.id} |->
        IF k = account.id THEN account ELSE accounts[k]]

\* execute that alerts when the balance is at or below the threshold
execute_at_or_below(accounts, account_id, threshold) ==
    LET account == get(accounts, account_id)
    IN  IF account = NoAccount
        THEN [ret |-> FALSE, alerts |-> << >>]
        ELSE IF ~less_than(threshold, account.balance)
        THEN [ret |-> TRUE,
              alerts |-> <<[to_email        |-> account.owner_email,
                           current_balance |-> account.balance,
                           threshold       |-> threshold]>>]
        ELSE [ret |-> FALSE, alerts |-> << >>]

\* BalanceAlertService.execute: what it returns and the calls
\* self.notifier.send_balance_alert(to_email=..., ...) it makes
execute(accounts, account_id, threshold) ==
    LET account == get(accounts, account_id)
    IN  IF account = NoAccount
        THEN [ret |-> FALSE, alerts |-> << >>]
        ELSE IF less_than(account.balance, threshold)
        THEN [ret |-> TRUE,
              alerts |-> <<[to_email        |-> account.owner_email,
                           current_balance |-> account.balance,
                           threshold       |-> threshold]>>]
        ELSE [ret |-> FALSE, alerts |-> << >>]

\* accounts.save(account)
Save(account) ==
    /\ items' = save(items, account)
    /\ UNCHANGED <<kind, json_file, csv_file, table, lastOp, build_vars,
                   race_vars, store, dsn_vars, outbox, result>>

\* service.execute(account_id=..., threshold=...)
Execute(account_id, threshold) ==
    LET r == execute(items, account_id, threshold)
    IN  /\ Len(outbox) + Len(r.alerts) <= MaxAlerts
        /\ outbox' = outbox \o r.alerts
        /\ result' = [account_id |-> account_id, threshold |-> threshold,
                      ret |-> r.ret, sent |-> Len(r.alerts)]
        /\ UNCHANGED <<kind, json_file, csv_file, table, lastOp, build_vars,
                       race_vars, store, dsn_vars, items>>

\* run_demo: an empty repository, no handler involved
InitBank == Init /\ kind = "json"

NextBank ==
    \/ \E account \in Accounts : Save(account)
    \/ \E account_id \in {account.id : account \in Accounts},
          threshold \in {<<"float", 50>>, <<"float", 51>>} :
          Execute(account_id, threshold)

SpecBank == InitBank /\ [][NextBank]_vars

(***************************************************************************)
(* What the claims are stated over.                                        *)
(***************************************************************************)
\* the identifiers of the rows in the store
stored_ids ==
    CASE kind = "json" -> {row_id(JSON_read_all(json_file)[i]) :
                              i \in 1..Len(json_file)}
      [] kind = "csv"  -> {row_id(CSV_read_all(csv_file)[i]) :
                              i \in 1..Len(csv_file.lines)}
      [] OTHER         -> {row.k : row \in table}

\* the record a read returns for `record` once it is in the store: the
\* record itself, and in the CSV file its cells under the current header
persisted(record) ==
    IF kind = "csv"
    THEN [f \in {csv_file.header[j] : j \in 1..Len(csv_file.header)} |->
            <<"str", csv_cell(record, f)>>]
    ELSE record

\* the record create(lastOp.arg) stored: the argument with the identifier
\* create returned
created == dict_set(lastOp.arg, id_field, <<"str", lastOp.rid>>)

\* what read returns for the identifier of the last call
read_back == read(lastOp.rid)

\* an identifier value that is missing or empty
Empty(v) == v = None \/ v = <<"str", "">>

NonEmptyStr(v) == v[1] = "str" /\ v[2] # ""

\* C1: create is an upsert on every backend: after create(record) with an
\* identifier that already had a stored record, read(id) returns the newly
\* supplied record.
C1_CreateReplaces ==
    (lastOp.op = "create" /\ lastOp.existed) =>
        read(lastOp.rid) = Found(persisted(created))

\* C2: every backend class implements the six contract methods, so building
\* a handler for any recognised backend kind (its driver being installed)
\* succeeds and each of the six methods can be invoked on it.
C2_EveryBackendBuilds ==
    (/\ handler # NotBuilt
     /\ lower(DB_BACKEND) \in Backends
     /\ builders[lower(DB_BACKEND)].driver \in drivers \cup {""})
        => /\ handler.status = "ok"
           /\ AbstractMethods \subseteq builders[handler.backend].methods

\* C3: round trip on the opaque-blob backends: after create(r), read of the
\* returned identifier returns r with its identifier normalised (the string
\* form of a truthy identifier, a generated token otherwise) and every other
\* field unchanged.
C3_RoundTrip ==
    (lastOp.op = "create" /\ kind \in OpaqueKinds) =>
        /\ read(lastOp.rid) = Found(created)
        /\ Truthy(dict_get(lastOp.arg, id_field)) =>
              lastOp.rid = PyStr(lastOp.arg[id_field])

\* C4: update(id, partial) on an existing record returns the shallow merge
\* of the record read(id) returned before the call with partial, the
\* identifier field being id.
C4_UpdateReturnsMerge ==
    [][(lastOp'.op = "update" /\ read(lastOp'.rid).found) =>
          /\ lastOp'.found
          /\ lastOp'.ret = [f \in DOMAIN read(lastOp'.rid).rec
                                  \cup DOMAIN lastOp'.arg \cup {id_field} |->
                              IF f = id_field THEN <<"str", lastOp'.rid>>
                              ELSE IF f \in DOMAIN lastOp'.arg THEN lastOp'.arg[f]
                              ELSE read(lastOp'.rid).rec[f]]]_vars

\* C5: the record a successful update(id, partial) returns is the record
\* persisted: a read(id) right after it returns exactly that record (in the
\* CSV file: that record's cells).
C5_UpdateReturnsPersisted ==
    (lastOp.op = "update" /\ lastOp.found) =>
        read(lastOp.rid) = Found(persisted(lastOp.ret))

\* C6: update never alters an identifier: after a successful
\* update(id, partial), whatever identifier partial carries, the record
\* returned and the record read(id) finds have identifier id, and the set of
\* identifiers in the store is the one before the call.
C6_UpdateKeepsIdentifier ==
    [][(lastOp'.op = "update" /\ lastOp'.found) =>
          /\ dict_get(lastOp'.ret, id_field) = <<"str", lastOp'.rid>>
          /\ read_back'.found
          /\ dict_get(read_back'.rec, id_field) = <<"str", lastOp'.rid>>
          /\ stored_ids' = stored_ids]_vars

\* a successful update whose partial carried another identifier than id
C6_Witness ==
    /\ lastOp.op = "update"
    /\ lastOp.found
    /\ id_field \in DOMAIN lastOp.arg
    /\ PyStr(lastOp.arg[id_field]) # lastOp.rid

\* C7: after any sequence of calls, the identifier create returns is not
\* empty, and every record a read finds carries a non-empty string in the
\* identifier field.
C7_IdentifierIsNonEmptyString ==
    /\ lastOp.op = "create" => lastOp.rid # ""
    /\ (lastOp.op = "read" /\ lastOp.found) =>
          NonEmptyStr(dict_get(lastOp.ret, id_field))
    /\ \A record_id \in CallIds :
          read(record_id).found =>
              NonEmptyStr(dict_get(read(record_id).rec, id_field))

\* a read that found the record created with the integer identifier 7,
\* after an update of it
C7_Witness ==
    /\ lastOp.op = "read"
    /\ lastOp.found
    /\ lastOp.rid = "7"
    /\ dict_get(lastOp.ret, "a") \in {<<"int", "3">>, <<"str", "3">>}

\* C8: create assigns and returns a newly generated identifier to a record
\* whose identifier field is missing or empty, and for a record that has an
\* identifier value it keeps and returns that value in its string form.
C8_IdentifierAssignment ==
    lastOp.op = "create" =>
        IF Empty(dict_get(lastOp.arg, id_field))
        THEN lastOp.rid \in UuidHex /\ ~lastOp.existed
        ELSE lastOp.rid = PyStr(lastOp.arg[id_field])

\* C9: read, update and delete of an identifier that has no stored record
\* return absent, absent and false, and leave the store as it was.
C9_MissingIdNoOp ==
    [][(lastOp'.op \in {"read", "update", "delete"}
            /\ ~read(lastOp'.rid).found) =>
          /\ ~lastOp'.found
          /\ lastOp'.ret = EmptyRecord
          /\ UNCHANGED <<json_file, csv_file, table>>]_vars

\* an update of a missing identifier on a store that holds another record
C9_Witness ==
    /\ lastOp.op = "update"
    /\ ~lastOp.existed
    /\ ~lastOp.found
    /\ stored_ids # {}
    /\ lastOp.arg # EmptyRecord

\* C10: delete(id) of an existing id returns true and read(id) is absent
\* afterwards; a second delete(id) right after it returns false; this also
\* when the id was created more than once.
C10_DeleteIdempotent ==
    /\ lastOp.op = "delete" => (lastOp.found <=> lastOp.existed)
    /\ (lastOp.op = "delete" /\ lastOp.found) => ~read(lastOp.rid).found
    /\ (lastOp.op = "delete" /\ lastOp.after > 0) => ~lastOp.found
    /\ (lastOp.op = "read" /\ lastOp.after > 0) => ~lastOp.found

\* the second delete of an identifier whose two rows the first delete removed
C10_Witness ==
    /\ lastOp.op = "delete"
    /\ lastOp.after >= 2
    /\ ~lastOp.found

\* the record the last create or update call persisted
last_persisted ==
    IF lastOp.op = "create" THEN Found(persisted(created))
    ELSE Found(persisted(lastOp.ret))

\* what a read returned, a CSV row without its empty cells (the cells of
\* the columns that other rows brought into the header)
content(r) ==
    IF kind = "csv"
    THEN [found |-> r.found,
          rec   |-> [f \in {g \in DOMAIN r.rec : r.rec[g] # <<"str", "">>} |->
                       r.rec[f]]]
    ELSE r

\* C11: read returns the stored record unchanged: after a create or a
\* successful update of an identifier, read of it returns exactly the record
\* that call persisted, and a create, update or delete call on another
\* identifier leaves what read returns for an identifier as it was (in the
\* CSV file: up to the empty cells of new columns).
C11_ReadReturnsStored ==
    [][/\ (lastOp'.op = "create" \/ (lastOp'.op = "update" /\ lastOp'.found))
              => read_back' = last_persisted'
       /\ lastOp'.op \in {"create", "update", "delete"} =>
              \A record_id \in CallIds :
                  record_id # lastOp'.rid =>
                      content(read(record_id))' = content(read(record_id))
      ]_vars

\* the number of rows in the backing store
row_count ==
    CASE kind = "json" -> Len(json_file)
      [] kind = "csv"  -> Len(csv_file.lines)
      [] OTHER         -> Cardinality(table)

\* C12: the store is keyed by identifier: after any sequence of create,
\* update and delete calls it holds at most one row per identifier value.
C12_KeyedStore == row_count = Cardinality(stored_ids)

\* the backends whose backup copies the file or streams the rows in-process
CopyKinds == {"json", "sqlite", "mssql", "oracle"}

\* C13: on JSON, SQLite, MSSQL and Oracle, backup returns the target path and
\* the artifact it leaves holds exactly the stored records: one entry for
\* each identifier read finds, equal to the record read returns, and no
\* other entry.
C13_BackupFidelity ==
    (lastOp.op = "backup" /\ kind \in CopyKinds) =>
        /\ lastOp.found
        /\ lastOp.raised = NoError
        /\ Len(lastOp.artifact.entries) = Cardinality(stored_ids)
        /\ \A record_id \in stored_ids :
              \E i \in 1..Len(lastOp.artifact.entries) :
                  json_loads(lastOp.artifact.entries[i]) = read(record_id).rec

\* whether one of the executables the handler tries is in PATH
dump_found == dump_commands(kind) \cap lastOp.env.PATH # {}

\* C14: in the PostgreSQL, MySQL and MariaDB handlers backup returns the
\* target path only when a dump executable was found and exited with 0; when
\* none is found it raises "not found in PATH", when the dump exits with
\* another code it raises "failed with exit code" with that code, and these
\* two messages differ.
C14_DumpFailureRaised ==
    (lastOp.op = "backup" /\ kind \in DumpKinds) =>
        /\ lastOp.found <=> (dump_found /\ lastOp.env.exit = 0)
        /\ lastOp.found <=> lastOp.raised = NoError
        /\ ~dump_found => lastOp.raised[1] = "not found in PATH"
        /\ (dump_found /\ lastOp.env.exit # 0) =>
              /\ lastOp.raised[1] = "failed with exit code"
              /\ lastOp.raised[2] \in lastOp.env.PATH
              /\ lastOp.raised[3] = lastOp.env.exit
        /\ lastOp.found => lastOp.artifact.format \in lastOp.env.PATH

\* a MariaDB backup whose mariadb-dump is missing and whose mysqldump exits
\* with a code other than 0
C14_Witness ==
    /\ lastOp.op = "backup"
    /\ kind = "mariadb"
    /\ lastOp.raised = <<"failed with exit code", "mysqldump", 1>>
    /\ table # {}

\* C15: when DB_BACKEND names no known backend, build_database_handler raises
\* a ValueError whose message lists the supported backend kinds, and no
\* handler is constructed: no connection is opened and no method can be
\* invoked.
C15_UnsupportedBackend ==
    (handler # NotBuilt /\ lower(DB_BACKEND) \notin Backends) =>
        /\ handler.status = "ValueError"
        /\ message.text = "Unsupported DB_BACKEND"
        /\ message.backend = lower(DB_BACKEND)
        /\ {message.supported[i] : i \in 1..Len(message.supported)} = Backends
        /\ connections = 0
        /\ called = {}

\* build_database_handler has raised for the selector "mongodb"
C15_Witness ==
    /\ DB_BACKEND = "mongodb"
    /\ handler.status = "ValueError"
    /\ drivers = Drivers

\* what delete(record_id) would return and leave in the store if it were
\* issued now
delete(record_id) ==
    CASE kind = "json" -> JSON_delete(json_file, record_id)
      [] kind = "csv"  -> CSV_delete(csv_file, record_id)
      [] OTHER         -> SQL_delete(table, record_id)

\* C16: close is a no-op on every handler: it returns nothing and leaves the
\* handler and the stored records as they were, also when it is called
\* again, so that a call issued after it finds the store, and returns, what
\* it would have without the close.
C16_CloseIsNoOp ==
    [][lastOp'.op = "close" =>
          /\ UNCHANGED <<kind, json_file, csv_file, table>>
          /\ ~lastOp'.found
          /\ lastOp'.ret = EmptyRecord
          /\ lastOp'.raised = NoError
          /\ \A record_id \in CallIds :
                /\ read(record_id)' = read(record_id)
                /\ delete(record_id)' = delete(record_id)]_vars

\* close was called on a handler whose store holds two rows
C16_Witness ==
    /\ lastOp.op = "close"
    /\ row_count = 2

\* the backends whose __init__ needs a driver module
Networked == {b \in Backends : builders[b].driver # ""}

\* C19: constructing a networked handler whose driver module is not installed
\* raises ImportError before a connection is opened or the table is created;
\* every backend whose driver is installed is constructed as it is when all
\* drivers are installed, and every networked one of them successfully.
C19_DriverMissing ==
    /\ (/\ handler # NotBuilt
        /\ lower(DB_BACKEND) \in Networked
        /\ builders[lower(DB_BACKEND)].driver \notin drivers)
          => /\ handler.status = "ImportError"
             /\ message = driver_required(lower(DB_BACKEND))
             /\ connections = 0
             /\ called = {}
    /\ (handler.status = "ok" /\ handler.backend \in SqlKinds) => connections = 1
    /\ \A b \in Backends :
          builders[b].driver \in drivers \cup {""} =>
              /\ instantiate(b, drivers) = instantiate(b, Drivers)
              /\ ensure_table(b, drivers) = ensure_table(b, Drivers)
              /\ b \in Networked => instantiate(b, drivers).status = "ok"

\* PostgresDatabaseHandler was refused for want of psycopg while the driver
\* of another backend is installed
C19_Witness ==
    /\ handler = [status |-> "ImportError", backend |-> "postgresql"]
    /\ "oracledb" \in drivers
    /\ connections = 0

\* C17: the file handlers take no lock around _read_all() ... _write_all():
\* the file a mutating call leaves (no other _write_all being under way) is
\* the rows that call loaded, with its own change, whatever another call
\* wrote in between; so two concurrent creates of different records can both
\* return while the file holds only the record of the one that wrote last.
C17_LastWriterWins ==
    \A q \in Procs :
        (/\ kind \in FileKinds
         /\ writer = q
         /\ \A p \in Procs : calls[p].pc # "writing"
         /\ calls[q].pc = "done"
         /\ calls[q].op \in {"create", "delete"}
         /\ calls[q].found)
            => /\ file = calls[q].pending
               /\ \A p \in Procs :
                     (/\ calls[p].pc = "done"
                      /\ calls[p].op = "create"
                      /\ calls[q].stale
                      /\ \A i \in 1..Len(IF kind = "json" THEN JSON_read_all(calls[q].pending)
                                         ELSE CSV_read_all(calls[q].pending)) :
                            row_id((IF kind = "json"
                                    THEN JSON_read_all(calls[q].pending)
                                    ELSE CSV_read_all(calls[q].pending))[i])
                                # calls[p].rid)
                        => calls[p].rid \notin stored_ids

\* both callers have returned from create, of different identifiers, and the
\* record of the one that wrote first is not in the file
C17_Witness ==
    \E p, q \in Procs :
        /\ kind \in FileKinds
        /\ p # q
        /\ calls[p].pc = "done" /\ calls[p].op = "create" /\ calls[p].found
        /\ calls[q].pc = "done" /\ calls[q].op = "create" /\ calls[q].found
        /\ calls[p].rid # calls[q].rid
        /\ writer = q
        /\ calls[q].stale
        /\ calls[p].rid \notin stored_ids
        /\ calls[q].rid \in stored_ids

\* C18: update of an SQL handler is a SELECT followed by a separate upsert:
\* the row an update leaves is the merge of its partial record into the
\* record its SELECT returned, whatever another call stored in between; so
\* two concurrent updates of one identifier with disjoint fields can both
\* return a merged record while the stored record has the fields of one.
C18_UpdateReadThenWrite ==
    \A q \in Procs :
        (/\ kind \in SqlKinds
         /\ writer = q
         /\ calls[q].pc = "done"
         /\ calls[q].op = "update"
         /\ calls[q].found)
            => /\ calls[q].ret = merged(calls[q].existing.rec, calls[q].arg,
                                        calls[q].rid)
               /\ SQL_read(table, calls[q].rid) = Found(calls[q].ret)

\* both callers have returned a merged record from update of identifier 7,
\* with disjoint fields, and the stored record lacks the field of the one
\* that wrote first
C18_Witness ==
    \E p, q \in Procs :
        /\ kind \in SqlKinds
        /\ p # q
        /\ calls[p].pc = "done" /\ calls[p].op = "update" /\ calls[p].found
        /\ calls[q].pc = "done" /\ calls[q].op = "update" /\ calls[q].found
        /\ calls[p].rid = calls[q].rid
        /\ DOMAIN calls[p].arg \cap DOMAIN calls[q].arg = {}
        /\ DOMAIN calls[p].arg \subseteq DOMAIN calls[p].ret
        /\ writer = q
        /\ SQL_read(table, calls[q].rid).found
        /\ DOMAIN calls[p].arg \cap DOMAIN SQL_read(table, calls[q].rid).rec = {}
        /\ DOMAIN calls[q].arg \subseteq DOMAIN SQL_read(table, calls[q].rid).rec

\* what the call of caller p computed from the file it loaded
loaded(p) ==
    [file |-> calls[p].pending, found |-> calls[p].found, ret |-> calls[p].ret]

\* C20: the file handlers rewrite the file atomically: the _read_all() of a
\* call that runs while another call is in _write_all() loads either the
\* complete content from before that rewrite or the complete content after
\* it.
C20_AtomicRewrite ==
    [][\A p, q \in Procs :
          (/\ kind \in FileKinds
           /\ calls[q].pc = "writing"
           /\ calls[p].pc = "read_all"
           /\ calls'[p].pc # "read_all")
             => loaded(p)' \in {on_rows(calls[p], calls[q].before),
                                on_rows(calls[p], to_write(calls[q]))}]_vars

\* C21: every create, read, update, delete or backup call of an SQL handler
\* opens exactly one connection and has released it when it returns, so no
\* connection remains open after any sequence of calls.
C21_ConnectionDiscipline ==
    (kind \in SqlKinds
        /\ lastOp.op \in {"create", "read", "update", "delete", "backup"}) =>
        /\ lastOp.opened = 1
        /\ lastOp.unclosed = 0

\* the executables the last backup call ran
ran == {lastOp.tried[i] : i \in 1..Len(lastOp.tried)}

\* the statement that every dump-tool handler runs an alternate executable
\* when its primary one is not found, and raises the missing-tool failure
\* only after both were not found
C22_EveryDumpFallsBack ==
    (lastOp.op = "backup" /\ kind \in DumpKinds
        /\ primary(kind) \notin lastOp.env.PATH) =>
        /\ Len(lastOp.tried) = 2
        /\ lastOp.tried[1] = primary(kind)
        /\ lastOp.tried[2] # primary(kind)
        /\ lastOp.raised[1] = "not found in PATH" => ran \cap lastOp.env.PATH = {}

\* C22: in the MariaDB handler, when mariadb-dump is not found, backup runs
\* mysqldump before failing: the outcome is that of mysqldump (its dump, or
\* its exit code), and the missing-tool failure is raised only after both
\* were not found; the PostgreSQL and MySQL handlers run one executable
\* (pg_dump, mysqldump) and raise the missing-tool failure when it is not
\* found.
C22_DumpFallback ==
    (lastOp.op = "backup" /\ kind \in DumpKinds) =>
        /\ lastOp.tried[1] = primary(kind)
        /\ kind \in {"postgresql", "mysql"} =>
              /\ lastOp.tried = <<primary(kind)>>
              /\ lastOp.raised[1] = "not found in PATH"
                    <=> primary(kind) \notin lastOp.env.PATH
        /\ kind = "mariadb" =>
              /\ Len(lastOp.tried) = 2 <=> "mariadb-dump" \notin lastOp.env.PATH
              /\ Len(lastOp.tried) = 2 =>
                    /\ lastOp.tried[2] = "mysqldump"
                    /\ ("mysqldump" \in lastOp.env.PATH /\ lastOp.env.exit = 0) =>
                          /\ lastOp.found
                          /\ lastOp.artifact.format = "mysqldump"
                    /\ ("mysqldump" \in lastOp.env.PATH /\ lastOp.env.exit # 0) =>
                          lastOp.raised = <<"failed with exit code", "mysqldump",
                                            lastOp.env.exit>>
              /\ lastOp.raised[1] = "not found in PATH"
                    <=> (Len(lastOp.tried) = 2 /\ ran \cap lastOp.env.PATH = {})

\* a MariaDB backup that did not find mariadb-dump and returned the dump
\* mysqldump wrote
C22_Witness ==
    /\ lastOp.op = "backup"
    /\ kind = "mariadb"
    /\ lastOp.env.PATH = {"mysqldump"}
    /\ lastOp.tried = <<"mariadb-dump", "mysqldump">>
    /\ lastOp.found
    /\ lastOp.artifact.format = "mysqldump"
    /\ table # {}

\* C23: constructing a handler over a backing store that exists leaves the
\* store as it is, so that every record stays readable and unchanged; the
\* empty store is written only when the file or table does not exist.
C23_ConstructKeepsStore ==
    [][lastOp'.op = "__init__" =>
          /\ store' = "present"
          /\ store = "present" =>
                /\ UNCHANGED <<json_file, csv_file, table>>
                /\ \A record_id \in CallIds : read(record_id)' = read(record_id)
                /\ stored_ids' = stored_ids
          /\ store = "missing" => row_count' = 0
          /\ (row_count' = 0 /\ row_count > 0) => store = "missing"]_vars

\* a handler was constructed over a store that holds two rows
C23_Witness ==
    /\ lastOp.op = "__init__"
    /\ lastOp.existed
    /\ row_count = 2
    /\ read("7").found

\* the field names in the header of the CSV file
header_fields == {csv_file.header[j] : j \in 1..Len(csv_file.header)}

\* the keys of the rows a mutating call passes to _write_all: those of the
\* rows it loaded (each has the header's fields) and of the record or
\* partial record of the call
written_fields(call) ==
    IF call.op = "delete" THEN header_fields
    ELSE header_fields \cup DOMAIN call.arg \cup {id_field}

\* C24: in the CSV handler, after a mutating call that rewrote the file and
\* left rows in it, the header is the union of the field names of the rows
\* written (without repetition), every row read back has exactly the
\* header's fields, and a field the created record lacked is read back
\* empty; a rewrite with no rows leaves an empty file without header.
C24_CsvHeader ==
    [][(/\ kind = "csv"
        /\ \/ lastOp'.op = "create"
           \/ lastOp'.op \in {"update", "delete"} /\ lastOp'.found) =>
          IF Len(csv_file'.lines) = 0
          THEN csv_file' = EmptyCsv /\ csv_file'.header = << >>
          ELSE /\ header_fields' = written_fields(lastOp')
               /\ Len(csv_file'.header) = Cardinality(header_fields')
               /\ \A i \in 1..Len(csv_file'.lines) :
                     DOMAIN CSV_read_all(csv_file')[i] = header_fields'
               /\ lastOp'.op = "create" =>
                     \A f \in header_fields' \ (DOMAIN lastOp'.arg \cup {id_field}) :
                        CSV_read_all(csv_file')[Len(csv_file'.lines)][f]
                            = <<"str", "">>
               /\ \A i \in 1..Len(csv_file.lines) :
                     \A f \in header_fields' \ header_fields :
                        lastOp'.op = "create" =>
                            CSV_read_all(csv_file')[i][f] = <<"str", "">>]_vars

\* a create that brought a new column into a file whose stored row lacks it
C24_Witness ==
    /\ kind = "csv"
    /\ lastOp.op = "create"
    /\ Len(csv_file.lines) = 2
    /\ "a" \in header_fields
    /\ "a" \in DOMAIN lastOp.arg
    /\ CSV_read_all(csv_file)[1]["a"] = <<"str", "">>

\* the value the environment gives for a parameter of the engine: that of
\* the engine's own variable, for MariaDB else that of the MySQL variable
env_suffix(p) == CASE p = "host" -> "_HOST" [] p = "port" -> "_PORT"
                   [] p = "user" -> "_USER" [] p = "password" -> "_PASSWORD"
                   [] p = "database" -> "_DB"
env_prefixes(backend) ==
    CASE backend = "postgresql" -> <<"POSTGRES">>
      [] backend = "mysql"      -> <<"MYSQL">>
      [] backend = "mariadb"    -> <<"MARIADB", "MYSQL">>
env_set(backend, p) ==
    {i \in 1..Len(env_prefixes(backend)) :
        env_prefixes(backend)[i] \o env_suffix(p) \in environ}
env_value(backend, p) ==
    "$" \o env_prefixes(backend)[Min(env_set(backend, p))] \o env_suffix(p)

\* C25: every connection parameter the DSN gives is used as given; a
\* parameter the DSN lacks takes the value of the environment when one is
\* set, and otherwise the engine default: port 5432 (PostgreSQL) or 3306
\* (MySQL, MariaDB), host localhost.
C25_DsnInterpretation ==
    attributes # NoAttributes =>
        \A p \in Parameters :
            /\ dsn[p] # null => attributes[p] = dsn[p]
            /\ (dsn[p] = null /\ env_set(kind, p) # {}) =>
                  attributes[p] = env_value(kind, p)
            /\ (dsn[p] = null /\ env_set(kind, p) = {}) =>
                  /\ p = "host" => attributes[p] = "localhost"
                  /\ p = "port" => attributes[p] =
                        (IF kind = "postgresql" THEN "5432" ELSE "3306")

\* C26: no CRUD call retries or swallows a failure of the storage layer: the
\* call raises the failure as the storage layer raised it, returns nothing,
\* issues no statement after the one that failed, and no call issues a
\* statement twice.
C26_FailurePropagates ==
    /\ lastOp.method \in CrudMethods =>
          \A i, j \in 1..Len(lastOp.issued) :
              lastOp.issued[i] = lastOp.issued[j] => i = j
    /\ lastOp.op = "failure" =>
          /\ lastOp.raised[1] \in StorageErrors(kind)
          /\ lastOp.raised[2] = lastOp.issued[lastOp.failed]
          /\ lastOp.failed = Len(lastOp.issued)
          /\ ~lastOp.found
          /\ lastOp.ret = EmptyRecord

\* an update of a stored record whose upsert (or rewrite of the file) raised
\* after its read had succeeded
C26_Witness ==
    /\ lastOp.op = "failure"
    /\ lastOp.method = "update"
    /\ lastOp.failed = 2
    /\ lastOp.existed

\* the statement that a record whose delete has returned true, with no
\* create of it issued since, is absent, whatever calls overlapped the
\* delete
C27_DeletedStaysDeleted ==
    \A record_id \in RaceIds :
        deleted[record_id] \in {"yes", "overlapped"} => ~read(record_id).found

\* C27: once delete(id) has returned true, no create(id) is issued later and
\* no other create, update or delete was under way during the delete,
\* read(id) returns absent, whatever calls follow; a call that overlaps the
\* delete (an SQL update between its SELECT and its upsert, a file handler's
\* call between _read_all and _write_all) can write the record back.
C27_DeletedStaysDeletedAlone ==
    \A record_id \in RaceIds :
        deleted[record_id] = "yes" => ~read(record_id).found

\* after a delete of 7 that ran alone, an update of 7 has returned, found
\* nothing and written nothing, while the store holds another record
C27_Witness ==
    \E p \in Procs :
        /\ deleted["7"] = "yes"
        /\ calls[p].pc = "done"
        /\ calls[p].op \in {"update", "read"}
        /\ calls[p].rid = "7"
        /\ ~calls[p].found
        /\ stored_ids # {}

\* C28: backup never changes the stored data set: after backup(path),
\* whether it returned the path or raised, the backing store is as it was and
\* read(id) returns for every id what it returned before the call (the
\* target path is a file other than the backing file).
C28_BackupKeepsData ==
    [][lastOp'.op = "backup" =>
          /\ UNCHANGED <<kind, json_file, csv_file, table>>
          /\ \A record_id \in CallIds : read(record_id)' = read(record_id)
          /\ stored_ids' = stored_ids]_vars

\* a backup has raised while the store holds two rows, one of them 7
C28_Witness ==
    /\ lastOp.op = "backup"
    /\ ~lastOp.found
    /\ lastOp.raised # NoError
    /\ row_count = 2
    /\ read("7").found

\* C29: when backup fails in a dump-tool handler (the dump tool is missing
\* or exits with a non-zero code), a file that already existed at the
\* target path keeps its previous contents.
C29_FailedDumpKeepsTarget ==
    (/\ lastOp.op = "backup"
     /\ kind \in DumpKinds
     /\ lastOp.raised # NoError
     /\ lastOp.env.prior = OldFile)
        => lastOp.artifact = OldFile

\* the step is a call of BalanceAlertService.execute that found the
\* account or sent an alert, or differs from the call before
executed == result' # result \/ outbox' # outbox

\* C30: BalanceAlertService.execute(account_id, threshold) sends exactly one
\* balance alert (to the owner, with the balance and the threshold) and
\* returns true if and only if the account exists in the repository and its
\* balance is strictly below the threshold; otherwise it sends nothing and
\* returns false; in every case the repository's contents are unchanged.
C30_BalanceAlert ==
    [][executed =>
          LET account_id == result'.account_id
              threshold  == result'.threshold
              below      == /\ account_id \in DOMAIN items
                            /\ items[account_id].balance[1] = "float"
                            /\ items[account_id].balance[2] < threshold[2]
          IN  /\ items' = items
              /\ result'.ret <=> below
              /\ below =>
                    /\ Len(outbox') = Len(outbox) + 1
                    /\ SubSeq(outbox', 1, Len(outbox)) = outbox
                    /\ outbox'[Len(outbox')] =
                          [to_email |-> items[account_id].owner_email,
                           current_balance |-> items[account_id].balance,
                           threshold |-> threshold]
              /\ ~below => outbox' = outbox]_vars

\* execute on an account whose balance equals the threshold has returned
\* false, after an alert for another account was sent
C30_Witness ==
    /\ result.account_id \in DOMAIN items
    /\ items[result.account_id].balance = result.threshold
    /\ ~result.ret
    /\ Len(outbox) = 1
    /\ outbox[1].to_email # items[result.account_id].owner_email

====
